---- MODULE Spec2Model ----
(***************************************************************************)
(* A model of chessmaster.py: the chess pieces (ChessPiece, Rook, Bishop,  *)
(* King) with their legality rules and move history, and the ChessMatch    *)
(* tracker with its `pieces` mapping and `log`.                            *)
(*                                                                         *)
(* Python strings are sequences of one-character strings ("a1" is          *)
(* <<"a", "1">>), so that indexing, slicing and concatenation are what the *)
(* code does.  A Python value is a record [kind, val]; the outcome of a    *)
(* call is a record [exc, val]: exc = "" for a normal return, otherwise    *)
(* the name of the exception that left the call.                           *)
(***************************************************************************)
EXTENDS Integers, Sequences, FiniteSets, TLC

VARIABLES
    obj,     \* the piece instance the caller holds (NoObj: none)
    out,     \* outcome of the last call on a piece: [op, exc, val]
    pieces,  \* ChessMatch.pieces: full notation -> stored value
    log,     \* ChessMatch.log
    mout,    \* outcome of the last tracker call: [op, exc, val, printed]
    clock,   \* the last value time.time() returned
    arg      \* the string a function is applied to (<<>>: none drawn)

vars == <<obj, out, pieces, log, mout, clock, arg>>

(***************************************************************************)
(* Bounds of the model.                                                    *)
(***************************************************************************)
MaxMoves == 2   \* longest move history of the piece under test
MaxLog == 2     \* longest tracker log
MaxClock == 1   \* the clock reads 0..MaxClock
MaxLen == 3     \* longest string a function is applied to


(***************************************************************************)
(* Inputs.  Tiles and notations the callers pass; they include strings     *)
(* that are not valid tile notation (rank 9, file i) and a prefix the      *)
(* tracker does not know (Q).                                              *)
(***************************************************************************)
InputTiles ==
    { <<"a", "1">>, <<"a", "2">>, <<"b", "2">>, <<"c", "1">>,
      <<"a", "9">>, <<"i", "1">> }

Classes == {"ChessPiece", "Rook", "Bishop", "King"}

DestTiles ==
    { <<"a", "2">>, <<"h", "1">>, <<"d", "2">>, <<"a", "9">> }

ExtraNotations ==
    { <<"R", "c", "1">>, <<"Q", "a", "1">>, <<"B", "i", "9">> }

(***************************************************************************)
(* Python values and call outcomes.                                        *)
(***************************************************************************)
PyNone == [kind |-> "None", val |-> <<>>]
PyBool(b) == [kind |-> "bool", val |-> <<b>>]
PyTrue == PyBool(TRUE)
PyFalse == PyBool(FALSE)
PyTuple(t) == [kind |-> "tuple", val |-> t]

\* bool(v) as `if v:` and `if not v:` compute it
Truthy(v) ==
    CASE v.kind = "None" -> FALSE
      [] v.kind = "bool" -> v.val[1]
      [] OTHER -> Len(v.val) > 0

Ret(v) == [exc |-> "", val |-> v]
Raise(e) == [exc |-> e, val |-> PyNone]

\* c in t, for a tuple t
In(c, t) == \E i \in 1..Len(t) : t[i] = c

\* t.index(c): the zero-based place of the first c in t
Index(t, c) ==
    (CHOOSE i \in 1..Len(t) : t[i] = c /\ \A j \in 1..(i - 1) : t[j] # c) - 1

(***************************************************************************)
(* ChessPiece.algebraic_to_numeric                                         *)
(***************************************************************************)
alpha == <<"a", "b", "c", "d", "e", "f", "g", "h">>
num == <<"1", "2", "3", "4", "5", "6", "7", "8">>

algebraic_to_numeric(tile) ==
    IF Len(tile) < 1 THEN Raise("IndexError")
    ELSE IF ~In(tile[1], alpha) THEN Ret(PyNone)
    ELSE IF Len(tile) < 2 THEN Raise("IndexError")
    ELSE IF ~In(tile[2], num) THEN Ret(PyNone)
    ELSE Ret(PyTuple(<<Index(alpha, tile[1]), Index(num, tile[2])>>))

(***************************************************************************)
(* Piece instances and the class attribute `prefix`.                       *)
(***************************************************************************)
NoObj == [cls |-> "", position |-> <<>>, moves |-> <<>>]

prefix(cls) ==
    CASE cls = "Rook" -> <<"R">>
      [] cls = "Bishop" -> <<"B">>
      [] cls = "King" -> <<"K">>
      [] OTHER -> <<>>

(***************************************************************************)
(* is_legal_move of each class.  A value computed once and tested several  *)
(* times in the code is the argument of an operator that does the tests.   *)
(***************************************************************************)
\* `if <r>: return True / else: return False`
truth_test(r) ==
    IF r.exc # "" THEN r
    ELSE IF Truthy(r.val) THEN Ret(PyTrue)
    ELSE Ret(PyFalse)

ChessPiece_is_legal_move(self, position) ==
    truth_test(algebraic_to_numeric(position))

\* Rook.is_legal_move testing the file letter only
Rook_is_legal_move_file_only(self, position) ==
    IF Len(self.position) < 1 \/ Len(position) < 1 THEN Raise("IndexError")
    ELSE IF self.position[1] = position[1] THEN Ret(PyTrue)
    ELSE Ret(PyFalse)

Rook_is_legal_move(self, position) ==
    IF Len(self.position) < 1 \/ Len(position) < 1 THEN Raise("IndexError")
    ELSE IF self.position[1] = position[1] THEN Ret(PyTrue)
    ELSE IF Len(self.position) < 2 \/ Len(position) < 2 THEN Raise("IndexError")
    ELSE IF self.position[2] = position[2] THEN Ret(PyTrue)
    ELSE Ret(PyFalse)

\* the deltas left signed
negate_never(coor) == coor

\* `if coor < 0: coor = coor * -1`
negate_if_negative(coor) == IF coor < 0 THEN coor * (-1) ELSE coor

\* coor_0 and coor_1 of Bishop and King; subscripting None is a TypeError
coor_deltas(old_coor, new_coor) ==
    IF old_coor.exc # "" THEN old_coor
    ELSE IF new_coor.exc # "" THEN new_coor
    ELSE IF old_coor.val.kind = "None" \/ new_coor.val.kind = "None"
         THEN Raise("TypeError")
    ELSE Ret(PyTuple(
            <<negate_if_negative(old_coor.val.val[1] - new_coor.val.val[1]),
              negate_if_negative(old_coor.val.val[2] - new_coor.val.val[2])>>))

Deltas(self, position) ==
    coor_deltas(algebraic_to_numeric(self.position),
                algebraic_to_numeric(position))

bishop_test(d) ==
    IF d.exc # "" THEN d
    ELSE IF d.val.val[1] = d.val.val[2] THEN Ret(PyTrue)
    ELSE Ret(PyFalse)

Bishop_is_legal_move(self, position) == bishop_test(Deltas(self, position))

\* King.is_legal_move without the diagonal step
king_test_no_diagonal(d) ==
    IF d.exc # "" THEN d
    ELSE LET coor_0 == d.val.val[1]
             coor_1 == d.val.val[2]
         IN  IF (coor_0 = 1 /\ coor_1 = 0) \/ (coor_0 = 0 /\ coor_1 = 1)
             THEN Ret(PyTrue)
             ELSE IF coor_0 = 0 /\ coor_1 = 0
             THEN Ret(PyTrue)
             ELSE Ret(PyFalse)

king_test(d) ==
    IF d.exc # "" THEN d
    ELSE LET coor_0 == d.val.val[1]
             coor_1 == d.val.val[2]
         IN  IF (coor_0 = 1 /\ coor_1 = 0) \/ (coor_0 = 0 /\ coor_1 = 1)
             THEN Ret(PyTrue)
             ELSE IF (coor_0 = 0 /\ coor_1 = 0) \/ (coor_0 = 1 /\ coor_1 = 1)
             THEN Ret(PyTrue)
             ELSE Ret(PyFalse)

King_is_legal_move(self, position) == king_test(Deltas(self, position))

\* self.is_legal_move(position): the method of self's class
is_legal_move(self, position) ==
    CASE self.cls = "Rook" -> Rook_is_legal_move(self, position)
      [] self.cls = "Bishop" -> Bishop_is_legal_move(self, position)
      [] self.cls = "King" -> King_is_legal_move(self, position)
      [] OTHER -> ChessPiece_is_legal_move(self, position)

(***************************************************************************)
(* ChessPiece.__init__ (Rook, Bishop and King call it unchanged).          *)
(* The result is the outcome and the instance the caller gets: NoObj when  *)
(* the constructor raises.                                                 *)
(***************************************************************************)
\* self after `self.position = position; self.moves = []`
new_piece(cls, position) ==
    [cls |-> cls, position |-> position, moves |-> <<>>]

\* `if self.is_legal_move(position) is False: raise ValueError`
init_check(self, legal) ==
    IF legal.exc # "" THEN [out |-> legal, obj |-> NoObj]
    ELSE IF legal.val = PyFalse
         THEN [out |-> Raise("ValueError"), obj |-> NoObj]
    ELSE [out |-> Ret(PyNone), obj |-> self]

ChessPiece_init(cls, position) ==
    init_check(new_piece(cls, position),
               is_legal_move(new_piece(cls, position), position))

(***************************************************************************)
(* ChessPiece.move; now is what time.time() returns if it is called,       *)
(* legal is what self.is_legal_move(position) came to.                     *)
(***************************************************************************)
\* move with `self.position = position` done before the legality test
move_body_assign_first(self, position, now, legal) ==
    LET oldposition == prefix(self.cls) \o self.position
    IN  IF legal.exc # "" THEN [out |-> legal, obj |-> self]
        ELSE IF Truthy(legal.val)
             THEN LET newposition == prefix(self.cls) \o position
                      record == <<oldposition, newposition, now>>
                  IN  [out |-> Ret(PyTuple(record)),
                       obj |-> [self EXCEPT !.position = position,
                                            !.moves = Append(@, record)]]
        ELSE [out |-> Ret(PyFalse),
              obj |-> [self EXCEPT !.position = position]]

\* move with oldposition read after `self.position = position`
move_body_old_after(self, position, now, legal) ==
    LET oldposition == prefix(self.cls) \o position
    IN  IF legal.exc # "" THEN [out |-> legal, obj |-> self]
        ELSE IF Truthy(legal.val)
             THEN LET newposition == prefix(self.cls) \o position
                      record == <<oldposition, newposition, now>>
                  IN  [out |-> Ret(PyTuple(record)),
                       obj |-> [self EXCEPT !.position = position,
                                            !.moves = Append(@, record)]]
        ELSE [out |-> Ret(PyFalse), obj |-> self]

\* move with `self.moves = [record]` for the append
move_body_replace_history(self, position, now, legal) ==
    LET oldposition == prefix(self.cls) \o self.position
    IN  IF legal.exc # "" THEN [out |-> legal, obj |-> self]
        ELSE IF Truthy(legal.val)
             THEN LET newposition == prefix(self.cls) \o position
                      record == <<oldposition, newposition, now>>
                  IN  [out |-> Ret(PyTuple(record)),
                       obj |-> [self EXCEPT !.position = position,
                                            !.moves = <<record>>]]
        ELSE [out |-> Ret(PyFalse), obj |-> self]

move_body(self, position, now, legal) ==
    LET oldposition == prefix(self.cls) \o self.position
    IN  IF legal.exc # "" THEN [out |-> legal, obj |-> self]
        ELSE IF Truthy(legal.val)
             THEN LET newposition == prefix(self.cls) \o position
                      record == <<oldposition, newposition, now>>
                  IN  [out |-> Ret(PyTuple(record)),
                       obj |-> [self EXCEPT !.position = position,
                                            !.moves = Append(@, record)]]
        ELSE [out |-> Ret(PyFalse), obj |-> self]

ChessPiece_move(self, position, now) ==
    move_body(self, position, now, is_legal_move(self, position))

\* whether move reaches its call of time.time()
legal_true(legal) == legal.exc = "" /\ Truthy(legal.val)

ReadsClock(self, position) == legal_true(is_legal_move(self, position))

\* what time.time() may return: the clock never runs backwards
TimeReads(reads) == IF reads THEN clock..MaxClock ELSE {clock}

(***************************************************************************)
(* The calls on the piece under test.                                      *)
(***************************************************************************)
Outcome(op, r) == [op |-> op, exc |-> r.exc, val |-> r.val]
NoOut == [op |-> "", exc |-> "", val |-> PyNone]

\* the caller's piece and the outcome after a call that came to r
PieceResult(op, r) ==
    /\ obj' = r.obj
    /\ out' = Outcome(op, r.out)

Construct(cls, position) ==
    /\ PieceResult("init", ChessPiece_init(cls, position))
    /\ UNCHANGED <<pieces, log, mout, clock, arg>>

IsLegalCall(position) ==
    /\ obj # NoObj
    /\ out' = Outcome("is_legal_move", is_legal_move(obj, position))
    /\ UNCHANGED <<obj, pieces, log, mout, clock, arg>>

MoveCall(position) ==
    /\ obj # NoObj
    /\ Len(obj.moves) < MaxMoves
    /\ \E now \in TimeReads(ReadsClock(obj, position)) :
          /\ PieceResult("move", ChessPiece_move(obj, position, now))
          /\ clock' = now
    /\ UNCHANGED <<pieces, log, mout, arg>>

NoMapping == << >>
NoMout == [op |-> "", exc |-> "", val |-> PyNone, printed |-> <<>>]

PieceInit ==
    /\ obj = NoObj
    /\ out = NoOut
    /\ pieces = NoMapping
    /\ log = <<>>
    /\ mout = NoMout
    /\ clock = 0
    /\ arg = <<>>

PieceNext ==
    \/ \E cls \in Classes, position \in InputTiles : Construct(cls, position)
    \/ \E position \in InputTiles : IsLegalCall(position)
    \/ \E position \in InputTiles : MoveCall(position)

PieceSpec == PieceInit /\ [][PieceNext]_vars

(***************************************************************************)
(* ChessMatch.  A value of `pieces` is a class (what reset stores) or a    *)
(* piece instance (what the caller's mapping holds).                       *)
(***************************************************************************)
ClassRef(cls) ==
    [kind |-> "class", cls |-> cls, position |-> <<>>, moves |-> <<>>]

Instance(cls, position) ==
    [kind |-> "instance", cls |-> cls, position |-> position, moves |-> <<>>]

\* the mapping reset() builds
StandardLayout ==
    (<<"R", "a", "1">> :> ClassRef("Rook")) @@
    (<<"R", "h", "1">> :> ClassRef("Rook")) @@
    (<<"R", "a", "8">> :> ClassRef("Rook")) @@
    (<<"R", "h", "8">> :> ClassRef("Rook")) @@
    (<<"B", "c", "1">> :> ClassRef("Bishop")) @@
    (<<"B", "f", "1">> :> ClassRef("Bishop")) @@
    (<<"B", "c", "8">> :> ClassRef("Bishop")) @@
    (<<"B", "f", "8">> :> ClassRef("Bishop")) @@
    (<<"K", "e", "1">> :> ClassRef("King")) @@
    (<<"K", "e", "8">> :> ClassRef("King"))

\* the mapping of the docstring of ChessMatch.move, and one with the
\* other two classes: every key is its instance's prefix + position
SuppliedMappings ==
    { (<<"R", "a", "1">> :> Instance("Rook", <<"a", "1">>)) @@
      (<<"R", "b", "1">> :> Instance("Rook", <<"b", "1">>)),
      (<<"B", "c", "1">> :> Instance("Bishop", <<"c", "1">>)) @@
      (<<"K", "e", "1">> :> Instance("King", <<"e", "1">>)) }

\* d.pop(k) of a dict d that holds k
Without(d, k) == [x \in DOMAIN d \ {k} |-> d[x]]

\* d[k] = v
Store(d, k, v) == [x \in DOMAIN d \cup {k} |-> IF x = k THEN v ELSE d[x]]

\* s[-2:]
LastTwo(s) == SubSeq(s, IF Len(s) > 2 THEN Len(s) - 1 ELSE 1, Len(s))

\* reset without `self.log = []`
ChessMatch_reset_keeps_log(self) ==
    [self EXCEPT !.pieces = StandardLayout]

ChessMatch_reset(self) ==
    [self EXCEPT !.log = <<>>, !.pieces = StandardLayout]

\* ChessMatch.__init__: given is FALSE for pieces=None
ChessMatch_init(given, mapping) ==
    [log |-> <<>>,
     pieces |-> IF given
                THEN mapping
                ELSE ChessMatch_reset([pieces |-> NoMapping,
                                       log |-> <<>>]).pieces]

ChessMatch_len(self) == Len(self.log)

(***************************************************************************)
(* pi_move, the inner function of ChessMatch.move; moved is what           *)
(* piece1.move(position) came to.  The result is the tracker after the     *)
(* call, its outcome and what it printed.  The log is appended to before   *)
(* pop may raise KeyError.                                                 *)
(***************************************************************************)
\* pi_move with the key renamed before `if not piece1.moves`
pi_move_body_rename_first(self, moved, piece, position) ==
    IF moved.out.exc # ""
    THEN [self |-> self, out |-> moved.out, printed |-> <<>>]
    ELSE IF piece \notin DOMAIN self.pieces
    THEN [self |-> self, out |-> Raise("KeyError"), printed |-> <<>>]
    ELSE IF moved.obj.moves = <<>>
    THEN [self |-> [self EXCEPT
                      !.pieces = Store(Without(@, piece),
                                       <<piece[1]>> \o position,
                                       self.pieces[piece])],
          out |-> Ret(PyNone), printed |-> <<"False">>]
    ELSE [self |-> [self EXCEPT
                      !.log = Append(@, moved.obj.moves[1]),
                      !.pieces = Store(Without(@, piece),
                                       <<piece[1]>> \o position,
                                       self.pieces[piece])],
          out |-> Ret(PyNone), printed |-> <<>>]

\* pi_move with the record put at the front of the log
pi_move_body_log_front(self, moved, piece, position) ==
    IF moved.out.exc # ""
    THEN [self |-> self, out |-> moved.out, printed |-> <<>>]
    ELSE IF moved.obj.moves = <<>>
    THEN [self |-> self, out |-> Ret(PyNone), printed |-> <<"False">>]
    ELSE IF piece \notin DOMAIN self.pieces
    THEN [self |-> [self EXCEPT !.log = <<moved.obj.moves[1]>> \o @],
          out |-> Raise("KeyError"), printed |-> <<>>]
    ELSE [self |-> [self EXCEPT
                      !.log = <<moved.obj.moves[1]>> \o @,
                      !.pieces = Store(Without(@, piece),
                                       <<piece[1]>> \o position,
                                       self.pieces[piece])],
          out |-> Ret(PyNone), printed |-> <<>>]

\* pi_move that rejects a full notation that is not a key of pieces
pi_move_body_known_only(self, moved, piece, position) ==
    IF moved.out.exc # ""
    THEN [self |-> self, out |-> moved.out, printed |-> <<>>]
    ELSE IF moved.obj.moves = <<>> \/ piece \notin DOMAIN self.pieces
    THEN [self |-> self, out |-> Ret(PyNone), printed |-> <<"False">>]
    ELSE [self |-> [self EXCEPT
                      !.log = Append(@, moved.obj.moves[1]),
                      !.pieces = Store(Without(@, piece),
                                       <<piece[1]>> \o position,
                                       self.pieces[piece])],
          out |-> Ret(PyNone), printed |-> <<>>]

pi_move_body(self, moved, piece, position) ==
    IF moved.out.exc # ""
    THEN [self |-> self, out |-> moved.out, printed |-> <<>>]
    ELSE IF moved.obj.moves = <<>>
    THEN [self |-> self, out |-> Ret(PyNone), printed |-> <<"False">>]
    ELSE IF piece \notin DOMAIN self.pieces
    THEN [self |-> [self EXCEPT !.log = Append(@, moved.obj.moves[1])],
          out |-> Raise("KeyError"), printed |-> <<>>]
    ELSE [self |-> [self EXCEPT
                      !.log = Append(@, moved.obj.moves[1]),
                      !.pieces = Store(Without(@, piece),
                                       <<piece[1]>> \o position,
                                       self.pieces[piece])],
          out |-> Ret(PyNone), printed |-> <<>>]

pi_move(self, piece1, piece, position, now) ==
    pi_move_body(self, ChessPiece_move(piece1, position, now), piece, position)

\* the class ChessMatch.move picks for a first character ("": none)
ClassOf(c) ==
    CASE c = "R" -> "Rook"
      [] c = "B" -> "Bishop"
      [] c = "K" -> "King"
      [] OTHER -> ""

\* what pi_move returns is dropped: ChessMatch.move returns None
drop_result(r) ==
    [self |-> r.self,
     out |-> IF r.out.exc # "" THEN r.out ELSE Ret(PyNone),
     printed |-> r.printed]

\* one branch of ChessMatch.move; made is what the constructor came to
branch(self, made, piece, position, now) ==
    IF made.out.exc # ""
    THEN [self |-> self, out |-> made.out, printed |-> <<>>]
    ELSE drop_result(pi_move(self, made.obj, piece, position, now))

ChessMatch_move(self, piece, position, now) ==
    IF Len(piece) < 1
    THEN [self |-> self, out |-> Raise("IndexError"), printed |-> <<>>]
    ELSE IF ClassOf(piece[1]) = ""
    THEN [self |-> self, out |-> Ret(PyNone), printed |-> <<>>]
    ELSE branch(self, ChessPiece_init(ClassOf(piece[1]), LastTwo(piece)),
                piece, position, now)

\* whether ChessMatch.move(piece, position) reaches time.time()
made_reads(made, position) ==
    made.out.exc = "" /\ ReadsClock(made.obj, position)

MatchReadsClock(piece, position) ==
    /\ Len(piece) >= 1
    /\ ClassOf(piece[1]) # ""
    /\ made_reads(ChessPiece_init(ClassOf(piece[1]), LastTwo(piece)), position)

(***************************************************************************)
(* The calls on the tracker.                                               *)
(***************************************************************************)
Notations == DOMAIN pieces \cup ExtraNotations

\* the tracker and the outcome after a call that came to r
TrackerResult(op, r) ==
    /\ pieces' = r.self.pieces
    /\ log' = r.self.log
    /\ mout' = [op |-> op, exc |-> r.out.exc, val |-> r.out.val,
                printed |-> r.printed]

MatchMove(piece, position) ==
    /\ Len(log) < MaxLog
    /\ \E now \in TimeReads(MatchReadsClock(piece, position)) :
          /\ TrackerResult("move",
                ChessMatch_move([pieces |-> pieces, log |-> log],
                                piece, position, now))
          /\ clock' = now
    /\ UNCHANGED <<obj, out, arg>>

Reset ==
    /\ TrackerResult("reset",
          [self |-> ChessMatch_reset([pieces |-> pieces, log |-> log]),
           out |-> Ret(PyNone), printed |-> <<>>])
    /\ UNCHANGED <<obj, out, clock, arg>>

Init ==
    /\ obj = NoObj
    /\ out = NoOut
    /\ \E given \in BOOLEAN :
       \E mapping \in IF given THEN SuppliedMappings ELSE {NoMapping} :
          /\ pieces = ChessMatch_init(given, mapping).pieces
          /\ log = ChessMatch_init(given, mapping).log
    /\ mout = [op |-> "init", exc |-> "", val |-> PyNone, printed |-> <<>>]
    /\ clock = 0
    /\ arg = <<>>

Next ==
    \/ \E piece \in Notations, position \in DestTiles :
          MatchMove(piece, position)
    \/ Reset

Spec == Init /\ [][Next]_vars

(***************************************************************************)
(* The functions on their own: algebraic_to_numeric on strings of up to    *)
(* MaxLen characters, and is_legal_move of each class from every tile of   *)
(* the board to every tile of the board.  The piece and the string are     *)
(* drawn at the start; the calls apply the functions to them.              *)
(***************************************************************************)
\* characters inside and outside alpha and num
Chars == {"a", "d", "h", "i", "A", "1", "4", "8", "9", "0"}

\* the 64 tiles of the board
AllTiles == { <<alpha[f], num[r]>> : f \in DOMAIN alpha, r \in DOMAIN num }

Strings == AllTiles \cup UNION { [1..n -> Chars] : n \in 0..MaxLen }

BoardPieces == { new_piece(cls, t) : cls \in Classes, t \in AllTiles }

Decode ==
    /\ obj # NoObj
    /\ out' = Outcome("algebraic_to_numeric", algebraic_to_numeric(arg))
    /\ UNCHANGED <<obj, pieces, log, mout, clock, arg>>

CallInit ==
    /\ out = NoOut
    /\ pieces = NoMapping
    /\ log = <<>>
    /\ mout = NoMout
    /\ clock = 0
    /\ \/ /\ obj = new_piece("ChessPiece", <<"a", "1">>)
          /\ arg \in Strings
       \/ /\ obj \in BoardPieces
          /\ arg \in AllTiles

CallNext ==
    \/ Decode
    \/ IsLegalCall(arg)

CallSpec == CallInit /\ [][CallNext]_vars


(***************************************************************************)
(* What the claims speak of.                                               *)
(***************************************************************************)
\* tile notation: exactly a file letter a..h and a rank digit 1..8
ValidTile(t) == Len(t) = 2 /\ In(t[1], alpha) /\ In(t[2], num)

\* the first character of a full notation is R, B or K
KnownPrefix(piece) == Len(piece) >= 1 /\ piece[1] \in {"R", "B", "K"}

\* the piece Match.move builds for a full notation
FreshPiece(piece) == ChessPiece_init(ClassOf(piece[1]), LastTwo(piece))

\* a constructed piece that takes the move
Takes(made, position) ==
    made.out.exc = "" /\ is_legal_move(made.obj, position) = Ret(PyTrue)

\* Match.move(piece, position) builds its piece and the piece takes the move
Accepts(piece, position) == Takes(FreshPiece(piece), position)

\* the key Match.move renames to
NewKey(piece, position) == <<piece[1]>> \o position

\* the full notation the fresh piece starts from
OldNotation(piece) == prefix(ClassOf(piece[1])) \o LastTwo(piece)

(***************************************************************************)
(* C1: a Match.move call with prefix R, B or K whose fresh piece produces  *)
(* no move record leaves `pieces` and `log` as they were: in every state   *)
(* the tracker reaches, every such call ends with the tracker it began     *)
(* with.                                                                   *)
(***************************************************************************)
C1_RejectedMoveChangesNothing ==
    \A piece \in Notations, position \in DestTiles :
        (KnownPrefix(piece) /\ ~Accepts(piece, position))
        => ChessMatch_move([pieces |-> pieces, log |-> log],
                           piece, position, clock).self
              = [pieces |-> pieces, log |-> log]

\* a rejected call (it printed False) on a tracker that has logged a move
C1_Witness ==
    /\ mout.op = "move"
    /\ mout.printed = <<"False">>
    /\ log # <<>>
    /\ pieces # StandardLayout

(***************************************************************************)
(* C2: a Match.move call with prefix R, B or K whose piece accepts the     *)
(* destination completes with the record appended to `log`, the old key    *)
(* gone from `pieces` and the new key holding the value the old key held,  *)
(* whether or not the full notation was a key.                             *)
(***************************************************************************)
C2_AcceptedMoveLogsAndRenames ==
    [][\A piece \in Notations, position \in DestTiles :
          (MatchMove(piece, position) /\ KnownPrefix(piece)
              /\ Accepts(piece, position))
          => /\ mout'.exc = ""
             /\ \E now \in clock..MaxClock :
                   log' = Append(log, <<OldNotation(piece),
                                        NewKey(piece, position), now>>)
             /\ NewKey(piece, position) \in DOMAIN pieces'
             /\ (piece # NewKey(piece, position)
                    => piece \notin DOMAIN pieces')
             /\ (piece \in DOMAIN pieces
                    => pieces'[NewKey(piece, position)] = pieces[piece])]_vars

(***************************************************************************)
(* C3: Match.move with a first character other than R, B, K ends in an     *)
(* error outcome, never in a normal completion.                            *)
(***************************************************************************)
C3_UnknownPrefixIsAnError ==
    [][\A piece \in Notations, position \in DestTiles :
          (MatchMove(piece, position) /\ ~KnownPrefix(piece))
          => mout'.exc # ""]_vars

(***************************************************************************)
(* C4: Match.move returns the record it appended to `log` when the move is *)
(* accepted and False when it is rejected.                                 *)
(***************************************************************************)
C4_MoveReturnsRecordOrFalse ==
    [][\A piece \in Notations, position \in DestTiles :
          (MatchMove(piece, position) /\ KnownPrefix(piece)
              /\ mout'.exc = "")
          => IF Accepts(piece, position)
             THEN /\ mout'.val.kind = "tuple"
                  /\ log' # <<>>
                  /\ mout'.val.val = log'[Len(log')]
             ELSE /\ mout'.val.kind = "bool"
                  /\ mout'.val = PyFalse]_vars

(***************************************************************************)
(* C5: no class's move accepts a destination that is not valid tile        *)
(* notation: such a call returns no record and leaves the position.        *)
(***************************************************************************)
C5_MoveNeverAcceptsInvalidTile ==
    [][\A position \in InputTiles :
          (MoveCall(position) /\ ~ValidTile(position))
          => /\ out'.val.kind # "tuple"
             /\ obj'.position = obj.position]_vars

(***************************************************************************)
(* C6: a move call on a destination that is_legal_move rejects leaves      *)
(* `position` and `moves` as they were and returns False.                  *)
(***************************************************************************)
C6_RejectedMoveKeepsPiece ==
    [][\A position \in InputTiles :
          (MoveCall(position) /\ is_legal_move(obj, position) = Ret(PyFalse))
          => /\ obj' = obj
             /\ out'.exc = ""
             /\ out'.val.kind = "bool"
             /\ out'.val = PyFalse]_vars

\* a move call returned False on a piece that has moved before
C6_Witness ==
    /\ out.op = "move"
    /\ out.exc = ""
    /\ out.val.kind = "bool"
    /\ obj.moves # <<>>

(***************************************************************************)
(* C7: is_legal_move and move never end in a raised exception, whatever    *)
(* two-character destination they are given.                               *)
(***************************************************************************)
C7_NoCallRaises ==
    out.op \in {"is_legal_move", "move"} => out.exc = ""

(***************************************************************************)
(* C8: a move call on a legal destination appends exactly the record       *)
(* (prefix + old position, prefix + destination, timestamp), sets the      *)
(* position to the destination, returns that record, and its timestamp is  *)
(* no smaller than any timestamp already in `moves`.                       *)
(***************************************************************************)
C8_LegalMoveAppendsOneRecord ==
    [][\A position \in InputTiles :
          (MoveCall(position) /\ is_legal_move(obj, position) = Ret(PyTrue))
          => \E now \in clock..MaxClock :
                /\ obj'.moves =
                      Append(obj.moves,
                             <<prefix(obj.cls) \o obj.position,
                               prefix(obj.cls) \o position, now>>)
                /\ obj'.position = position
                /\ obj'.cls = obj.cls
                /\ out'.exc = ""
                /\ out'.val.kind = "tuple"
                /\ out'.val.val = obj'.moves[Len(obj'.moves)]
                /\ \A i \in 1..Len(obj.moves) : obj.moves[i][3] <= now]_vars

\* a second accepted move, later than the first and to another square
C8_Witness ==
    /\ out.op = "move"
    /\ out.val.kind = "tuple"
    /\ Len(obj.moves) = 2
    /\ obj.moves[1][3] < obj.moves[2][3]
    /\ obj.moves[2][1] # obj.moves[2][2]

(***************************************************************************)
(* C9: constructing a piece of any class on a two-character string that is *)
(* not valid tile notation fails with ValueError and yields no piece.      *)
(***************************************************************************)
C9_InvalidStartIsValueError ==
    [][\A cls \in Classes, position \in InputTiles :
          (Construct(cls, position) /\ ~ValidTile(position))
          => /\ out'.exc = "ValueError"
             /\ obj' = NoObj]_vars

(***************************************************************************)
(* C10: every key of `pieces` that holds a piece instance equals that      *)
(* instance's prefix + current position.                                   *)
(***************************************************************************)
C10_KeysFollowInstances ==
    \A k \in DOMAIN pieces :
        pieces[k].kind = "instance"
        => k = prefix(pieces[k].cls) \o pieces[k].position

\* the tracker after Match.move(piece, position) in the current state
AfterMove(piece, position) ==
    ChessMatch_move([pieces |-> pieces, log |-> log],
                    piece, position, clock).self

\* the record an accepted Match.move(piece, position) logs at time now
LogRecord(piece, position, now) ==
    <<OldNotation(piece), NewKey(piece, position), now>>

\* the tile of a full notation
TileOf(notation) == LastTwo(notation)

(***************************************************************************)
(* C11: `log` is append-only and in acceptance order.  Every record in the *)
(* log is the record of a move its piece accepted and the records are in   *)
(* the order of their timestamps; every Match.move call leaves the log     *)
(* before it as a prefix of the log after it, appending exactly the one    *)
(* record of the move when the piece accepts it and nothing otherwise, so  *)
(* that len(match) grows by one per accepted move.                         *)
(***************************************************************************)
C11_LogIsAppendOnly ==
    /\ \A i \in 1..Len(log) :
          /\ KnownPrefix(log[i][1])
          /\ Accepts(log[i][1], TileOf(log[i][2]))
          /\ log[i][2] = NewKey(log[i][1], TileOf(log[i][2]))
          /\ \A j \in 1..Len(log) : i < j => log[i][3] <= log[j][3]
    /\ \A piece \in Notations, position \in DestTiles :
          IF KnownPrefix(piece) /\ Accepts(piece, position)
          THEN /\ AfterMove(piece, position).log
                     = Append(log, LogRecord(piece, position, clock))
               /\ ChessMatch_len(AfterMove(piece, position))
                     = ChessMatch_len([pieces |-> pieces, log |-> log]) + 1
          ELSE /\ AfterMove(piece, position).log = log
               /\ ChessMatch_len(AfterMove(piece, position))
                     = ChessMatch_len([pieces |-> pieces, log |-> log])

\* two different accepted moves logged, the second later than the first
C11_Witness ==
    /\ mout.op = "move"
    /\ Len(log) = 2
    /\ log[1][3] < log[2][3]
    /\ log[1][2] # log[2][2]

\* the ten full notations of the standard layout
StandardKeys ==
    { <<"R", "a", "1">>, <<"R", "h", "1">>, <<"R", "a", "8">>,
      <<"R", "h", "8">>, <<"B", "c", "1">>, <<"B", "f", "1">>,
      <<"B", "c", "8">>, <<"B", "f", "8">>, <<"K", "e", "1">>,
      <<"K", "e", "8">> }

\* a mapping with exactly the ten standard keys, each on its variant type
IsStandard(d) ==
    /\ DOMAIN d = StandardKeys
    /\ \A k \in DOMAIN d :
          /\ d[k].kind = "class"
          /\ d[k].cls = ClassOf(k[1])

(***************************************************************************)
(* C12: right after a ChessMatch is created, with or without a mapping,    *)
(* and right after reset() from any state the tracker reaches, `log` is    *)
(* empty; after reset() and after creation without a mapping `pieces` has  *)
(* exactly the ten keys Ra1, Rh1, Ra8, Rh8, Bc1, Bf1, Bc8, Bf8, Ke1, Ke8,  *)
(* each on its variant type, whatever moves were made before.              *)
(***************************************************************************)
C12_CreationAndResetStartClean ==
    /\ mout.op \in {"init", "reset"} => log = <<>>
    /\ mout.op = "reset" => IsStandard(pieces)
    /\ (mout.op = "init" /\ pieces \notin SuppliedMappings)
          => IsStandard(pieces)
    /\ ChessMatch_reset([pieces |-> pieces, log |-> log]).log = <<>>
    /\ IsStandard(ChessMatch_reset([pieces |-> pieces, log |-> log]).pieces)
    /\ IsStandard(ChessMatch_init(FALSE, NoMapping).pieces)
    /\ \A mapping \in SuppliedMappings :
          /\ ChessMatch_init(TRUE, mapping).log = <<>>
          /\ ChessMatch_init(TRUE, mapping).pieces = mapping

\* a reset that followed an accepted move
C12_Witness ==
    /\ mout.op = "reset"
    /\ clock > 0
    /\ IsStandard(pieces)

\* zero-based index of a file letter and of a rank digit
FileIndex(c) == CHOOSE i \in 0..7 : alpha[i + 1] = c
RankIndex(c) == CHOOSE i \in 0..7 : num[i + 1] = c

(***************************************************************************)
(* C13: algebraic_to_numeric returns the zero-based (file index, rank      *)
(* index) pair, both in 0..7, for every string that is a file letter a..h  *)
(* followed by a rank digit 1..8, and returns None for every other string, *)
(* strings of more than two characters that begin with a valid tile        *)
(* included.  Stated for the strings of two or more characters; a shorter  *)
(* string leaves the call with IndexError.                                 *)
(***************************************************************************)
C13_DecoderMatchesTilePattern ==
    (out.op = "algebraic_to_numeric" /\ Len(arg) >= 2)
    => /\ out.exc = ""
       /\ IF ValidTile(arg)
          THEN /\ out.val.kind = "tuple"
               /\ out.val.val = <<FileIndex(arg[1]), RankIndex(arg[2])>>
               /\ out.val.val[1] \in 0..7
               /\ out.val.val[2] \in 0..7
          ELSE out.val = PyNone

\* an is_legal_move call of a piece of class cls just returned
LegalCallOf(cls) == out.op = "is_legal_move" /\ obj.cls = cls

\* the call returned the boolean b
Returned(b) == out.exc = "" /\ out.val.kind = "bool" /\ out.val = PyBool(b)

(***************************************************************************)
(* C14: for every current tile and every destination tile,                 *)
(* Rook.is_legal_move returns True when the destination has the file       *)
(* letter or the rank digit of the rook's position and False otherwise.    *)
(***************************************************************************)
C14_RookSameFileOrRank ==
    (LegalCallOf("Rook") /\ ValidTile(obj.position) /\ ValidTile(arg))
    => Returned(arg[1] = obj.position[1] \/ arg[2] = obj.position[2])

\* from a1 the rook may go to a8
C14_Witness ==
    /\ LegalCallOf("Rook")
    /\ obj.position = <<"a", "1">>
    /\ arg = <<"a", "8">>
    /\ Returned(TRUE)

\* |a - b|
AbsDiff(a, b) == IF a < b THEN b - a ELSE a - b

\* absolute file and rank difference between two valid tiles
FileDiff(s, t) == AbsDiff(FileIndex(s[1]), FileIndex(t[1]))
RankDiff(s, t) == AbsDiff(RankIndex(s[2]), RankIndex(t[2]))

(***************************************************************************)
(* C15: for every pair of valid tiles, Bishop.is_legal_move returns True   *)
(* when the absolute file difference equals the absolute rank difference   *)
(* and False otherwise; the destination equal to the current square is     *)
(* legal.                                                                  *)
(***************************************************************************)
C15_BishopEqualDeltas ==
    (LegalCallOf("Bishop") /\ ValidTile(obj.position) /\ ValidTile(arg))
    => /\ Returned(FileDiff(obj.position, arg) = RankDiff(obj.position, arg))
       /\ arg = obj.position => Returned(TRUE)

\* the bishop on c1 asked for c1, its own square
C15_Witness ==
    /\ LegalCallOf("Bishop")
    /\ obj.position = <<"c", "1">>
    /\ arg = obj.position
    /\ Returned(TRUE)

(***************************************************************************)
(* C16: for every pair of valid tiles, King.is_legal_move returns True     *)
(* when the absolute file difference and the absolute rank difference are  *)
(* both at most 1 and False when either is larger.                         *)
(***************************************************************************)
C16_KingOneStep ==
    (LegalCallOf("King") /\ ValidTile(obj.position) /\ ValidTile(arg))
    => Returned(/\ FileDiff(obj.position, arg) <= 1
                /\ RankDiff(obj.position, arg) <= 1)

\* the king on d4 asked for the diagonal neighbour e5
C16_Witness ==
    /\ LegalCallOf("King")
    /\ obj.position = <<"d", "4">>
    /\ arg = <<"e", "5">>
    /\ Returned(TRUE)

\* the full notations a caller may pass in any state
CallNotations ==
    StandardKeys \cup ExtraNotations
        \cup UNION { DOMAIN mapping : mapping \in SuppliedMappings }

\* what a caller sees of a Match.move call on tracker self that came to r:
\* a record was logged, False was printed, or neither
verdict_of(self, r) ==
    IF r.self.log # self.log THEN "accepted"
    ELSE IF r.printed = <<"False">> THEN "rejected"
    ELSE "neither"

Verdict(self, piece, position) ==
    verdict_of(self, ChessMatch_move(self, piece, position, clock))

\* a tracker just created without a mapping
FreshTracker == ChessMatch_init(FALSE, NoMapping)

(***************************************************************************)
(* C17: whether Match.move accepts or rejects depends on its two arguments *)
(* only.  Whatever `pieces` and `log` the tracker has reached, every call  *)
(* gets the verdict the same call gets on a tracker just created, so any   *)
(* two tracker states give the same call the same verdict.                 *)
(***************************************************************************)
C17_VerdictDependsOnArgumentsOnly ==
    \A piece \in CallNotations, position \in DestTiles :
        Verdict([pieces |-> pieces, log |-> log], piece, position)
            = Verdict(FreshTracker, piece, position)

\* a tracker with two logged moves and renamed keys whose last call was
\* accepted for a full notation that was not a key
C17_Witness ==
    /\ mout.op = "move"
    /\ mout.exc = "KeyError"
    /\ Len(log) = 2
    /\ DOMAIN pieces # StandardKeys

\* the mapping came from reset(): it holds classes, not instances
FromReset(d) == \A k \in DOMAIN d : d[k].kind = "class"

(***************************************************************************)
(* C18: starting from reset(), after any sequence of Match.move calls      *)
(* `pieces` still has ten entries: an accepted move renames one key and    *)
(* removes or overwrites no other entry, also when the new full notation   *)
(* is already a key.                                                       *)
(***************************************************************************)
C18_MovesKeepTenEntries ==
    FromReset(pieces) => Cardinality(DOMAIN pieces) = 10

\* the piece under test after move(position) in the current state
MovedPiece(position) == ChessPiece_move(obj, position, clock).obj

\* s is a prefix of t
IsPrefix(s, t) == Len(s) <= Len(t) /\ SubSeq(t, 1, Len(s)) = s

\* each record starts where the one before it ended, and the last one ends
\* on the piece's position
IsChain(self) ==
    /\ \A i \in 2..Len(self.moves) :
          self.moves[i][1] = self.moves[i - 1][2]
    /\ self.moves # <<>>
          => self.moves[Len(self.moves)][2]
                = prefix(self.cls) \o self.position

(***************************************************************************)
(* C19: the `moves` of a piece instance is an append-only chain.  After    *)
(* any sequence of legal and illegal move calls each record's old full     *)
(* notation is the new full notation of the record before it and the last  *)
(* record's new full notation is prefix + `position`; every further move   *)
(* call keeps the history as a prefix, adds at most one record, starts     *)
(* that record on prefix + the position the piece has (the starting tile   *)
(* while the history is empty) and leaves a chain again.                   *)
(***************************************************************************)
C19_MovesIsAppendOnlyChain ==
    obj # NoObj
    => /\ IsChain(obj)
       /\ \A position \in InputTiles :
             /\ IsPrefix(obj.moves, MovedPiece(position).moves)
             /\ Len(MovedPiece(position).moves) <= Len(obj.moves) + 1
             /\ Len(MovedPiece(position).moves) > Len(obj.moves)
                   => MovedPiece(position).moves[Len(obj.moves) + 1][1]
                         = prefix(obj.cls) \o obj.position
             /\ IsChain(MovedPiece(position))

\* a history of two moves between three different squares
C19_Witness ==
    /\ obj # NoObj
    /\ out.op = "move"
    /\ Len(obj.moves) = 2
    /\ obj.moves[1][1] # obj.moves[1][2]
    /\ obj.moves[2][2] # obj.moves[1][2]
    /\ obj.moves[2][2] # obj.moves[1][1]

====
